---- MODULE Spec2Model ----
(***************************************************************************)
(* The pipeline orchestration engine of run_pipeline.py as a state         *)
(* machine: one process (main) that runs agent phases one at a time,       *)
(* a log directory and a metrics file on disk, a kill-switch file and      *)
(* approval markers owned by a human, and a git HEAD moved by the agents.  *)
(* A program step is one run_phase call together with the synchronous      *)
(* driver code around it; the finally block of main is part of every step  *)
(* that leaves the process.                                                *)
(***************************************************************************)
EXTENDS Integers, Sequences, FiniteSets, TLC

VARIABLES
    cfg,        \* _config: the parsed pipeline.config.sh (fixed for a behaviour)
    pc,         \* position of main(): the run_phase call that comes next, or "exited"
    state,      \* the PipelineState object
    progress,   \* the ProgressTracker object
    steps,      \* len(steps) of the list extract_impl_steps returned
    step,       \* index of the step implement_and_verify is working on
    attempt,    \* loop variable of implement_and_verify
    log_dir,    \* files under state.log_dir, the journal of the files the last
                \* program step wrote, and what the prompt of the last agent call
                \* said of interest: the test instruction of a verify prompt, the
                \* stagnation clause of an implement prompt
    metrics,    \* "runs" of the METRICS_FILE
    kill,       \* state.kill_switch.exists()
    holdouts,   \* holdout-*.md files exist in HOLDOUTS_DIR
    head,       \* git rev-parse HEAD, as the number of commits made so far
    exit_code,  \* exit code of the process (-1 while it runs)
    raised,     \* the RuntimeError the last program step raised ("" if none)
    devs,       \* events so far that leave the nominal course (see MaxDeviations)
    resumes,    \* --resume invocations so far
    start_cost, \* state.total_cost when the try block of main was entered
    resumed_completed  \* names in checkpoint.json's "phases" when --resume read it

vars == <<cfg, pc, state, progress, steps, step, attempt, log_dir, metrics, kill,
          holdouts, head, exit_code, raised, devs, resumes, start_cost,
          resumed_completed>>

----------------------------------------------------------------------------
\* Bounds of the model

\* events per behaviour that leave the nominal course: an agent call that
\* returns something else than a nominal outcome (normal return, cost 0,
\* nominal verdict, a commit, a full plan), or the human creating the
\* kill-switch file
MaxDeviations == 1
\* largest number of steps the extract-steps agent returns
NumSteps == 2
\* --resume invocations per behaviour
MaxResumes == 1
\* MAX_PIPELINE_COST of the configurations explored, in cost units
MaxCost == 0
\* largest MAX_VERIFY_RETRIES of the configurations explored
MaxRetries == 3

----------------------------------------------------------------------------
\* Configuration

\* the module-level default of PHASE_ORDER
DefaultOrder ==
    << "phase0", "interrogate", "interrogation-review", "generate-docs",
       "doc-review", "write-specs", "holdout-generate", "implement",
       "holdout-validate", "security-audit", "ship" >>

\* a PHASE_ORDER setting that puts holdout-generate before write-specs
HoldoutsFirst ==
    << "phase0", "interrogate", "interrogation-review", "generate-docs",
       "doc-review", "holdout-generate", "write-specs", "implement",
       "holdout-validate", "security-audit", "ship" >>

Tiers == {"nano", "quick", "standard", "full", "auto"}

\* PHASE_ORDER <<>>: the setting is absent from the configuration file
BaseConfig ==
    [ PIPELINE_TIER |-> "full", DOC_TEMPLATES_MODE |-> "auto", HUMAN_GATES |-> {},
      MAX_PIPELINE_COST |-> MaxCost, MAX_VERIFY_RETRIES |-> MaxRetries - 1,
      MAX_NO_PROGRESS |-> 1, agent_teams |-> FALSE, PHASE_ORDER |-> <<>>,
      MAX_INTERROGATION_ITERATIONS |-> 2 ]

\* the configurations explored: the base one, and each setting changed alone
Configs ==
    {[BaseConfig EXCEPT !.PIPELINE_TIER = t] : t \in Tiers}
    \cup {[BaseConfig EXCEPT !.DOC_TEMPLATES_MODE = "none"]}
    \cup {[BaseConfig EXCEPT !.HUMAN_GATES = {"doc-review"}]}
    \cup {[BaseConfig EXCEPT !.MAX_VERIFY_RETRIES = n] : n \in 1..MaxRetries}
    \cup {[BaseConfig EXCEPT !.agent_teams = TRUE]}
    \cup {[BaseConfig EXCEPT !.PHASE_ORDER = HoldoutsFirst]}
    \cup {[BaseConfig EXCEPT !.MAX_INTERROGATION_ITERATIONS = 0]}

\* the global PHASE_ORDER after main has read the configuration
PHASE_ORDER == IF cfg.PHASE_ORDER # <<>> THEN cfg.PHASE_ORDER ELSE DefaultOrder

\* a loop bound that is one too large
OneMoreRetry == cfg.MAX_VERIFY_RETRIES + 1

MAX_VERIFY_RETRIES == cfg.MAX_VERIFY_RETRIES

\* a pass test that FAIL meets as well
FailPasses == {"PASS", "AUTO_PASS", "PASS_WITH_NOTES", "FAIL"}

PassVerdicts == {"PASS", "AUTO_PASS", "PASS_WITH_NOTES"}

\* verdict tokens the agents of this model put after "VERDICT:"
AgentVerdicts ==
    {"PASS", "AUTO_PASS", "ITERATE", "FAIL", "BLOCK", "NEEDS_HUMAN", "UNKNOWN", "APPROVED"}

----------------------------------------------------------------------------
\* Phase names

Name(base, id, n) == base \o "-" \o id \o "-attempt-" \o ToString(n)

StepId(s) == "step-" \o ToString(s)

ImplementName(s, n) == Name("implement", StepId(s), n)

\* a verify phase named after the attempt that follows
VerifyNameNext(s, n) == Name("verify", StepId(s), n + 1)

VerifyName(s, n) == Name("verify", StepId(s), n)

AttemptRange == 1..(MaxRetries + 1)

StepRange == 1..(NumSteps + 1)

ImplementNames(s) == {ImplementName(s, n) : n \in AttemptRange}

VerifyNames(s) == {VerifyName(s, n) : n \in AttemptRange}

\* the phases run_review_with_bias_check runs
ReviewNames ==
    { "interrogation-review", "interrogation-review-pass1", "interrogation-review-pass2",
      "doc-review", "doc-review-pass1", "doc-review-pass2" }

GateNames ==
    ReviewNames \cup {"holdout-validate", "security-audit"}
    \cup UNION {VerifyNames(s) : s \in StepRange}

----------------------------------------------------------------------------
\* Data types

PhaseResult(name, cost, verdict, error) ==
    [name |-> name, cost_usd |-> cost, verdict |-> verdict, error |-> error]

\* a state that starts from cost 0 whatever the checkpoint says
ZeroCostState(total, resume) ==
    [ status |-> "running", current_phase |-> "", total_cost |-> 0,
      max_cost |-> cfg.MAX_PIPELINE_COST, resume_phase |-> resume,
      phases |-> <<>>, resolved_tier |-> "" ]

NewState(total, resume) ==
    [ status |-> "running", current_phase |-> "", total_cost |-> total,
      max_cost |-> cfg.MAX_PIPELINE_COST, resume_phase |-> resume,
      phases |-> <<>>, resolved_tier |-> "" ]

\* idle: history, the implement phases this process ran since the last one
\* that made a commit
NewProgress ==
    [ last_commit |-> -1, no_progress_count |-> 0, max_no_progress |-> cfg.MAX_NO_PROGRESS,
      idle |-> 0 ]

PhaseNames(st) == {st.phases[i].name : i \in 1..Len(st.phases)}

RECURSIVE SumCost(_)
SumCost(ps) == IF ps = <<>> THEN 0 ELSE ps[1].cost + SumCost(Tail(ps))

RECURSIVE SumCostUsd(_)
SumCostUsd(ps) == IF ps = <<>> THEN 0 ELSE ps[1].cost_usd + SumCostUsd(Tail(ps))

----------------------------------------------------------------------------
\* PipelineState methods

\* a check that never raises
KillSwitchIgnored(k) == FALSE

check_kill_switch(k) == k

\* a check that never raises
CeilingIgnored(st) == FALSE

check_cost_ceiling(st) == st.total_cost > st.max_cost

ScopeTier(scope) ==
    IF scope <= 1 THEN "nano"
    ELSE IF scope <= 2 THEN "quick"
    ELSE IF scope <= 3 THEN "standard"
    ELSE "full"

\* the value tier_allows_phase leaves in resolved_tier
ResolveTier(st, ld) ==
    IF st.resolved_tier # "" THEN st.resolved_tier
    ELSE IF cfg.PIPELINE_TIER = "auto"
         THEN ScopeTier(IF ld.phase0 >= 1 THEN ld.phase0 ELSE 3)
         ELSE cfg.PIPELINE_TIER

\* a tier table without entries
NoSkips(tier) == {}

skip_phases(tier) ==
    CASE tier = "nano" ->
           { "interrogation-review", "generate-docs", "doc-review", "write-specs",
             "holdout-generate", "holdout-validate", "security-audit" }
      [] tier = "quick" ->
           {"write-specs", "holdout-generate", "holdout-validate", "security-audit"}
      [] tier = "standard" -> {"holdout-generate", "holdout-validate"}
      [] OTHER -> {}

tier_allows_phase(st, ld, phase) == phase \notin skip_phases(ResolveTier(st, ld))

Index(seq, x) ==
    IF \E i \in 1..Len(seq) : seq[i] = x
    THEN CHOOSE i \in 1..Len(seq) : seq[i] = x /\ \A j \in 1..(i - 1) : seq[j] # x
    ELSE 0

\* the loop over PHASE_ORDER of should_run_phase: phase is met before resume_phase
BeforeResume(st, phase) ==
    /\ Index(PHASE_ORDER, phase) > 0
    /\ ~ \E i \in 1..Index(PHASE_ORDER, phase) : PHASE_ORDER[i] = st.resume_phase

save_checkpoint(st) ==
    [ status |-> st.status, current_phase |-> st.current_phase,
      total_cost |-> st.total_cost,
      phases |-> [i \in 1..Len(st.phases) |->
                    [ name |-> st.phases[i].name, cost |-> st.phases[i].cost_usd,
                      verdict |-> st.phases[i].verdict ]] ]

save_costs(st) ==
    [ phases |-> [i \in 1..Len(st.phases) |->
                    [name |-> st.phases[i].name, cost |-> st.phases[i].cost_usd]],
      total_cost |-> st.total_cost, status |-> st.status,
      started |-> IF st.phases # <<>> THEN st.phases[1].name ELSE "unknown" ]

\* should_run_phase: what it returns (run), whether it left through sys.exit(2)
\* (gate), and the state and log directory it leaves
should_run_phase(st, ld, phase) ==
    LET resolved == [st EXCEPT !.resolved_tier = ResolveTier(st, ld)]
        skip(s) == [run |-> FALSE, gate |-> FALSE, st |-> s, ld |-> ld]
        go(s) == [run |-> TRUE, gate |-> FALSE, st |-> s, ld |-> ld]
    IN  IF st.resume_phase = ""
        THEN IF tier_allows_phase(st, ld, phase) THEN go(resolved) ELSE skip(resolved)
        ELSE IF BeforeResume(st, phase) THEN skip(st)
        ELSE IF phase \in PhaseNames(st) THEN skip(st)
        ELSE IF ~ tier_allows_phase(st, ld, phase) THEN skip(resolved)
        ELSE IF cfg.DOC_TEMPLATES_MODE = "none" /\ phase \in {"generate-docs", "doc-review"}
             THEN skip(resolved)
        ELSE IF phase \in cfg.HUMAN_GATES /\ phase \notin ld.approved
             THEN LET halted == [resolved EXCEPT !.status = "needs_human_gate"]
                  IN  [ run |-> FALSE, gate |-> TRUE, st |-> halted,
                        ld |-> [ld EXCEPT !.checkpoint = <<save_checkpoint(halted)>>,
                                          !.journal = Append(@, "checkpoint.json")] ]
        ELSE go(resolved)

----------------------------------------------------------------------------
\* Parsing helpers

\* An agent text is a sequence of lines and a line the sequence of its words
\* (the pieces white space separates); VERDICT: is written as a word of its own

Marker == "VERDICT:"

\* the text of an agent that printed no VERDICT: line
NoVerdict == << <<"done">> >>

\* a text whose last line is VERDICT: and the token
VerdictText(token) == << <<Marker, token>> >>

\* a text whose last line is VERDICT: and nothing after it
BareVerdict == << <<Marker>> >>

\* "VERDICT:" in line
HasMarker(line) == \E i \in 1..Len(line) : line[i] = Marker

\* the place of the last VERDICT: of a line that holds one
LastMarker(line) ==
    CHOOSE i \in 1..Len(line) :
       line[i] = Marker /\ \A j \in (i + 1)..Len(line) : line[j] # Marker

\* line.split("VERDICT:")[-1].strip().split(): the words after the last marker
AfterMarker(line) == SubSeq(line, LastMarker(line) + 1, Len(line))

\* words[0]: the first word, or IndexError when the list is empty
First(words) ==
    IF words = <<>> THEN [exc |-> "IndexError", value |-> ""]
    ELSE [exc |-> "", value |-> words[1]]

\* the loop of parse_verdict over the lines that hold VERDICT:, taken from
\* the last line of the text to the first
FromLast(lines) ==
    IF lines = <<>> THEN [exc |-> "", value |-> "UNKNOWN"]
    ELSE First(AfterMarker(lines[Len(lines)]))

\* parse_verdict: the exception it raises ("" when it returns) and the value
\* it returns
parse_verdict(text) == FromLast(SelectSeq(text, HasMarker))

----------------------------------------------------------------------------
\* The agent collaborator: what one ClaudeAgent.run call can come back with

TextsOf(name) ==
    {NoVerdict, BareVerdict}
    \cup IF name \in GateNames THEN {VerdictText(v) : v \in AgentVerdicts \ {"UNKNOWN"}}
         ELSE {}

ScopesOf(name) == IF name = "phase0" /\ cfg.PIPELINE_TIER = "auto" THEN 0..5 ELSE {0}

PlansOf(name) == IF name = "extract-steps" THEN (-1)..NumSteps ELSE {0}

CommitsOf(name) == IF \E s \in StepRange : name \in ImplementNames(s) THEN BOOLEAN ELSE {FALSE}

Returned(name) ==
    [ kind : {"ok"}, cost_usd : {0, 1}, text : TextsOf(name), scope : ScopesOf(name),
      nsteps : PlansOf(name), commit : CommitsOf(name) ]

Failed(name) ==
    [ kind : {"timeout", "error"}, cost_usd : {0}, text : {NoVerdict}, scope : {0},
      nsteps : {0}, commit : {FALSE} ]

Outcomes(name) == Returned(name) \cup Failed(name)

\* the outcome of an agent call that does what its prompt asks for; a
\* reviewer reports AUTO_PASS, a verify agent PASS or FAIL
Nominal(name) ==
    [ kind |-> "ok", cost_usd |-> 0,
      text |-> IF name \in ReviewNames THEN VerdictText("AUTO_PASS")
               ELSE IF name \in GateNames THEN VerdictText("PASS")
               ELSE NoVerdict,
      scope |-> 0,
      nsteps |-> IF name = "extract-steps" THEN NumSteps ELSE 0,
      commit |-> \E s \in StepRange : name \in ImplementNames(s) ]

Nominals(name) ==
    {Nominal(name)}
    \cup IF \E s \in StepRange : name \in VerifyNames(s)
         THEN {[Nominal(name) EXCEPT !.text = VerdictText("FAIL")]}
         ELSE {}

Allowed(name, out) == out \in Nominals(name) \/ devs < MaxDeviations

Spend(name, out) == devs' = devs + (IF out \in Nominals(name) THEN 0 ELSE 1)

----------------------------------------------------------------------------
\* Phase runner

\* a PhaseResult that carries a verdict next to its error
VerdictWithError(name, out) ==
    PhaseResult(name, 0, "FAIL", IF out.kind = "ok" THEN "" ELSE "agent error")

\* the success branch of the try block of run_phase, and except Exception
\* for an exception of parse_verdict: its text becomes the error
Parsed(name, cost, v) ==
    IF v.exc # "" THEN PhaseResult(name, 0, "UNKNOWN", v.exc)
    ELSE PhaseResult(name, cost, v.value, "")

\* the PhaseResult run_phase builds from the agent call: the try block with
\* its two except branches
phase_result(name, out) ==
    CASE out.kind = "ok" -> Parsed(name, out.cost_usd, parse_verdict(out.text))
      [] out.kind = "timeout" -> PhaseResult(name, 0, "UNKNOWN", "Timeout")
      [] OTHER -> PhaseResult(name, 0, "UNKNOWN", "agent error")

\* a run_phase that writes the cost ledger before the checkpoint
LedgerFirst == <<"checkpoint.json", "output", "costs.json", "checkpoint.json">>

\* the files a run_phase call that reaches the agent writes, in the order it
\* writes them: the checkpoint with the new current_phase, the output of the
\* phase, the checkpoint with the phase appended, the cost ledger
PhaseWrites == <<"checkpoint.json", "output", "checkpoint.json", "costs.json">>

\* the output file run_phase writes, for the phases whose output the program
\* reads back (the verify phases): the agent's text or else the error, and
\* the fields of the PhaseResult
Saved(name, out, pr) ==
    IF \E s \in StepRange : name \in VerifyNames(s)
    THEN name :> [ result |-> IF pr.error = "" THEN out.text ELSE << <<pr.error>> >>,
                   name |-> name, cost_usd |-> pr.cost_usd, verdict |-> pr.verdict ]
    ELSE <<>>

\* run_phase: the error it raises ("" when it returns), the state and the log
\* directory it leaves, and the PhaseResult it returns. The journal of the log
\* directory starts anew with every call; the prompt of a phase holds no test
\* instruction unless the caller puts one in
run_phase(st, ld, k, name, out) ==
    IF check_kill_switch(k)
    THEN [ raised |-> "kill", st |-> st,
           ld |-> [ld EXCEPT !.journal = <<>>, !.instructed = ""],
           result |-> PhaseResult(name, 0, "UNKNOWN", "") ]
    ELSE IF check_cost_ceiling(st)
    THEN [ raised |-> "cost", st |-> st,
           ld |-> [ld EXCEPT !.journal = <<>>, !.instructed = ""],
           result |-> PhaseResult(name, 0, "UNKNOWN", "") ]
    ELSE LET pr == phase_result(name, out)
             st1 == [st EXCEPT !.current_phase = name,
                               !.total_cost = @ + pr.cost_usd,
                               !.phases = Append(@, pr)]
             ld1 == [ld EXCEPT !.phase0 = IF name = "phase0" THEN out.scope ELSE @,
                               !.outputs = IF name \in DOMAIN Saved(name, out, pr)
                                           THEN Saved(name, out, pr) @@ @ ELSE @,
                               !.checkpoint = <<save_checkpoint(st1)>>,
                               !.costs = <<save_costs(st1)>>,
                               !.journal = PhaseWrites,
                               !.instructed = ""]
         IN  [ raised |-> IF pr.error # "" THEN "phase" ELSE "",
               st |-> st1, ld |-> ld1, result |-> pr ]

----------------------------------------------------------------------------
\* Routing

\* a routing table that sends every verdict of a gate onward
RouteOnward(gate, verdict, retries) ==
    CASE gate = "interrogation-review" -> "generate-docs"
      [] gate = "doc-review" -> "write-specs"
      [] gate = "holdout-validate" -> "security-audit"
      [] gate = "security-audit" -> "ship"
      [] OTHER -> "next-step-or-holdout"

route_from_gate(gate, verdict, retries) ==
    CASE gate = "interrogation-review" /\ verdict \in {"AUTO_PASS", "PASS_WITH_NOTES", "PASS"}
           -> "generate-docs"
      [] gate = "interrogation-review" /\ verdict = "ITERATE" -> "interrogate"
      [] gate = "interrogation-review" /\ verdict \in {"NEEDS_HUMAN", "BLOCK"} -> "BLOCKED"
      [] gate = "doc-review" /\ verdict \in {"AUTO_PASS", "PASS_WITH_NOTES", "PASS"}
           -> "write-specs"
      [] gate = "doc-review" /\ verdict = "ITERATE" -> "generate-docs"
      [] gate = "holdout-validate" /\ verdict \in {"AUTO_PASS", "PASS_WITH_NOTES", "PASS"}
           -> "security-audit"
      [] gate = "holdout-validate" /\ verdict = "FAIL" -> "implement"
      [] gate = "security-audit" /\ verdict \in {"PASS", "AUTO_PASS"} -> "ship"
      [] gate = "security-audit" /\ verdict = "FAIL" -> "implement"
      [] OTHER ->
           IF gate = "verify"
           THEN IF verdict \in PassVerdicts THEN "next-step-or-holdout"
                ELSE IF retries >= MAX_VERIFY_RETRIES THEN "BLOCKED"
                ELSE "implement"
           ELSE "BLOCKED"

\* the reconciliation at the end of run_review_with_bias_check
Reconcile(v1, v2, v_ext) ==
    LET present == SelectSeq(<<v1, v2, v_ext>>, LAMBDA v : v # "" /\ v # "UNKNOWN")
        all_verdicts == {present[i] : i \in 1..Len(present)}
    IN  IF Cardinality(all_verdicts) = 1 THEN present[1]
        ELSE IF "FAIL" \in all_verdicts THEN "FAIL"
        ELSE IF "ITERATE" \in all_verdicts THEN "ITERATE"
        ELSE IF "NEEDS_HUMAN" \in all_verdicts THEN "NEEDS_HUMAN"
        ELSE v1

----------------------------------------------------------------------------
\* Progress tracker

\* ProgressTracker.check after an implement phase: the tracker it leaves and
\* what it returns
check(pt, current) ==
    IF current = pt.last_commit /\ pt.last_commit # -1
    THEN LET counted == [pt EXCEPT !.no_progress_count = @ + 1]
         IN  IF counted.no_progress_count >= counted.max_no_progress
             THEN [ok |-> FALSE, pt |-> counted]
             ELSE [ok |-> TRUE, pt |-> [counted EXCEPT !.last_commit = current]]
    ELSE [ok |-> TRUE, pt |-> [pt EXCEPT !.no_progress_count = 0, !.last_commit = current]]

----------------------------------------------------------------------------
\* The driver: how a program step ends

\* a retry_count that counts the first attempts as well
CountsFirstAttempts(st) ==
    [ status |-> st.status,
      retry_count |-> Cardinality({i \in 1..Len(st.phases) :
                         \E s \in StepRange, n \in AttemptRange :
                            st.phases[i].name \in {ImplementName(s, n), VerifyName(s, n)}}) ]

\* the entry the finally block of main appends to the metrics file
run_entry(st) ==
    [ status |-> st.status,
      retry_count |-> Cardinality({i \in 1..Len(st.phases) :
                         \E s \in StepRange, n \in AttemptRange \ {1} :
                            st.phases[i].name \in {ImplementName(s, n), VerifyName(s, n)}}) ]

\* the stages of main, in the order its code runs them
Stages ==
    << "phase0", "interrogate", "interrogation-review", "generate-docs",
       "doc-review", "write-specs", "holdout-generate", "implement",
       "holdout-validate", "security-audit", "ship" >>

\* main from stage number i on, up to the first stage whose body calls
\* run_phase: the stage reached ("done" past the last one), whether
\* should_run_phase left through sys.exit(2), and the state and log directory
\* the should_run_phase calls leave. h: holdout files exist
RECURSIVE Walk(_, _, _, _)

\* stage number i, of which should_run_phase has answered sr
Stage(sr, h, i) ==
    LET body == /\ sr.run
                /\ ~ (Stages[i] = "holdout-generate" /\ h)
                /\ ~ (Stages[i] = "holdout-validate" /\ ~ h)
    IN  IF sr.gate THEN [pc |-> Stages[i], gate |-> TRUE, st |-> sr.st, ld |-> sr.ld]
        ELSE IF body THEN [pc |-> Stages[i], gate |-> FALSE, st |-> sr.st, ld |-> sr.ld]
        ELSE Walk(sr.st, sr.ld, h, i + 1)

Walk(st, ld, h, i) ==
    IF i > Len(Stages) THEN [pc |-> "done", gate |-> FALSE, st |-> st, ld |-> ld]
    ELSE CHOOSE w \in {Stage(sr, h, i) : sr \in {should_run_phase(st, ld, Stages[i])}} : TRUE

\* the files the finally block of main writes, in the order it writes them
FinalWrites == <<"checkpoint.json", "costs.json", "metrics">>

\* the process leaves main: the finally block persists checkpoint, cost ledger
\* and metrics, and the objects of the process are gone
Exit(st, ld, code, err) ==
    /\ pc' = "exited"
    /\ state' = st
    /\ log_dir' = [ld EXCEPT !.checkpoint = <<save_checkpoint(st)>>,
                             !.costs = <<save_costs(st)>>,
                             !.journal = @ \o FinalWrites]
    /\ metrics' = Append(metrics, run_entry(st))
    /\ exit_code' = code
    /\ raised' = err

\* except RuntimeError of main
Fail(st, ld, err) == Exit([st EXCEPT !.status = "failed"], ld, 1, err)

\* main goes on inside a stage
Goto(st, ld, next) ==
    /\ pc' = next
    /\ state' = st
    /\ log_dir' = ld
    /\ raised' = ""
    /\ UNCHANGED <<metrics, exit_code>>

\* main goes on with the stage named next; past the last stage it sets status
\* completed
Advance(st, ld, h, next) ==
    \E w \in {Walk(st, ld, h, IF next = "done" THEN Len(Stages) + 1
                              ELSE Index(Stages, next))} :
        IF w.pc = "done"
        THEN Exit([w.st EXCEPT !.status = "completed"], w.ld, 0, "")
        ELSE IF w.gate THEN Exit(w.st, w.ld, 2, "")
        ELSE Goto(w.st, w.ld, w.pc)

\* the two checks run_phase starts with
Refused(st) == check_kill_switch(kill) \/ check_cost_ceiling(st)

\* a run_phase call that one of its two checks ends, outside any inner try
Refuse(st, ld, name) ==
    \E r \in {run_phase(st, ld, kill, name, Nominal(name))} :
        Fail(r.st, r.ld, r.raised)

\* await run_phase(...) in the try block of main, outside any inner try, then
\* on to stage next
Call(st, ld, name, next) ==
    IF Refused(st)
    THEN /\ Refuse(st, ld, name)
         /\ UNCHANGED devs
    ELSE \E out \in Outcomes(name) :
            /\ Allowed(name, out)
            /\ Spend(name, out)
            /\ \E r \in {run_phase(st, ld, kill, name, out)} :
                   IF r.raised # "" THEN Fail(r.st, r.ld, r.raised)
                   ELSE Advance(r.st, r.ld, holdouts, next)

Locals == <<steps, step, attempt, progress, head>>

Frame == <<cfg, kill, holdouts, resumes, start_cost, resumed_completed>>

----------------------------------------------------------------------------
\* The stages of main

Phase0 ==
    /\ pc = "phase0"
    /\ Call(state, log_dir, "phase0", "interrogate")
    /\ UNCHANGED <<Locals, Frame>>

Interrogate ==
    /\ pc = "interrogate"
    /\ Call(state, log_dir, "interrogate", "interrogation-review")
    /\ UNCHANGED <<Locals, Frame>>

\* what main does with the verdict run_review_with_bias_check returned
AfterReview(gate, st, ld, verdict) ==
    LET next_phase == route_from_gate(gate, verdict, 0)
    IN  IF gate = "interrogation-review"
        THEN IF next_phase = "BLOCKED"
             THEN LET paused == [st EXCEPT !.status = "needs_human"]
                  IN  Exit(paused,
                           [ld EXCEPT !.checkpoint = <<save_checkpoint(paused)>>,
                                      !.journal = Append(@, "checkpoint.json")],
                           2, "")
             ELSE IF next_phase = "interrogate" THEN Goto(st, ld, "interrogate-v2")
             ELSE Advance(st, ld, holdouts, "generate-docs")
        ELSE IF next_phase = "generate-docs" THEN Goto(st, ld, "generate-docs-v2")
             ELSE Advance(st, ld, holdouts, "write-specs")

\* a reviewer that takes two passes in every tier
NeverSingle(st) == FALSE

\* the test run_review_with_bias_check starts with: a single-pass review
single_pass(st) ==
    LET resolved == IF st.resolved_tier # "" THEN st.resolved_tier ELSE cfg.PIPELINE_TIER
    IN  resolved \in {"standard", "quick"}

\* run_review_with_bias_check up to its first run_phase: the single pass of
\* tiers standard and quick, or pass1
ReviewStart(gate) ==
    /\ pc = gate
    /\ LET single == single_pass(state)
           name == IF single THEN gate ELSE gate \o "-pass1"
       IN  IF Refused(state)
           THEN /\ Refuse(state, log_dir, name)
                /\ UNCHANGED devs
           ELSE \E out \in Outcomes(name) :
                   /\ Allowed(name, out)
                   /\ Spend(name, out)
                   /\ \E r \in {run_phase(state, log_dir, kill, name, out)} :
                          IF r.raised # "" THEN Fail(r.st, r.ld, r.raised)
                          ELSE IF single THEN AfterReview(gate, r.st, r.ld, r.result.verdict)
                          ELSE Goto(r.st, r.ld, gate \o "-pass2")
    /\ UNCHANGED <<Locals, Frame>>

\* pass2 of run_review_with_bias_check, the reconciliation, and the routing
ReviewPass2(gate) ==
    /\ pc = gate \o "-pass2"
    /\ LET name == gate \o "-pass2"
           pass1 == state.phases[Len(state.phases)]
       IN  IF Refused(state)
           THEN /\ Refuse(state, log_dir, name)
                /\ UNCHANGED devs
           ELSE \E out \in Outcomes(name) :
                   /\ Allowed(name, out)
                   /\ Spend(name, out)
                   /\ \E r \in {run_phase(state, log_dir, kill, name, out)} :
                          IF r.raised # "" THEN Fail(r.st, r.ld, r.raised)
                          ELSE AfterReview(gate, r.st, r.ld,
                                           Reconcile(pass1.verdict, r.result.verdict, ""))
    /\ UNCHANGED <<Locals, Frame>>

InterrogationReview == ReviewStart("interrogation-review")

InterrogationReviewPass2 == ReviewPass2("interrogation-review")

InterrogateV2 ==
    /\ pc = "interrogate-v2"
    /\ Call(state, log_dir, "interrogate-v2", "generate-docs")
    /\ UNCHANGED <<Locals, Frame>>

GenerateDocs ==
    /\ pc = "generate-docs"
    /\ Call(state, log_dir,
            IF cfg.agent_teams THEN "generate-docs-parallel" ELSE "generate-docs",
            "doc-review")
    /\ UNCHANGED <<Locals, Frame>>

DocReview == ReviewStart("doc-review")

DocReviewPass2 == ReviewPass2("doc-review")

GenerateDocsV2 ==
    /\ pc = "generate-docs-v2"
    /\ Call(state, log_dir, "generate-docs-v2", "write-specs")
    /\ UNCHANGED <<Locals, Frame>>

WriteSpecs ==
    /\ pc = "write-specs"
    /\ Call(state, log_dir, "write-specs", "holdout-generate")
    /\ UNCHANGED <<Locals, Frame>>

\* a holdout-generate phase that returns has written the holdout files
HoldoutGenerate ==
    /\ pc = "holdout-generate"
    /\ LET name == "holdout-generate"
       IN  IF Refused(state)
           THEN /\ Refuse(state, log_dir, name)
                /\ UNCHANGED <<devs, holdouts>>
           ELSE \E out \in Outcomes(name) :
                   /\ Allowed(name, out)
                   /\ Spend(name, out)
                   /\ \E r \in {run_phase(state, log_dir, kill, name, out)} :
                          IF r.raised # ""
                          THEN Fail(r.st, r.ld, r.raised) /\ UNCHANGED holdouts
                          ELSE Advance(r.st, r.ld, TRUE, "implement") /\ holdouts' = TRUE
    /\ UNCHANGED <<Locals, cfg, kill, resumes, start_cost, resumed_completed>>

----------------------------------------------------------------------------
\* The implementation loop

\* extract_impl_steps, and the entry into the loop over the steps
ExtractSteps ==
    /\ pc = "implement"
    /\ LET name == "extract-steps"
       IN  IF Refused(state)
           THEN /\ Refuse(state, log_dir, name)
                /\ UNCHANGED <<devs, steps, step, attempt>>
           ELSE \E out \in Outcomes(name) :
                   /\ Allowed(name, out)
                   /\ Spend(name, out)
                   /\ \E r \in {run_phase(state, log_dir, kill, name, out)} :
                          IF r.raised # ""
                          THEN Fail(r.st, r.ld, r.raised) /\ UNCHANGED <<steps, step, attempt>>
                          ELSE IF out.nsteps < 0
                          \* json.loads raises: not a RuntimeError, only finally runs
                          THEN /\ Exit(r.st, r.ld, 1, "json")
                               /\ UNCHANGED <<steps, step, attempt>>
                          ELSE IF out.nsteps = 0
                          THEN /\ Advance(r.st, r.ld, holdouts, "holdout-validate")
                               /\ UNCHANGED <<steps, step, attempt>>
                          ELSE /\ Goto(r.st, r.ld, "implement-attempt")
                               /\ steps' = out.nsteps
                               /\ step' = 1
                               /\ attempt' = 1
    /\ UNCHANGED <<progress, head, Frame>>

\* two saved outputs that are the same text, or as close as the stagnation
\* threshold asks: outputs of two attempts differ in the attempt number of
\* the name; those with the same result and verdict are taken to lie at or
\* above the threshold, the others below it
Similar(prev, curr) ==
    \/ prev = curr
    \/ prev.result = curr.result /\ prev.verdict = curr.verdict

\* check_stagnation(state.log_dir, f"verify-{step.id}", n)
check_stagnation(ld, s, n) ==
    IF n <= 1 THEN FALSE
    ELSE IF VerifyName(s, n - 1) \notin DOMAIN ld.outputs \/ VerifyName(s, n) \notin DOMAIN ld.outputs
    THEN FALSE
    ELSE Similar(ld.outputs[VerifyName(s, n - 1)], ld.outputs[VerifyName(s, n)])

\* what the error context of the implement prompt of attempt n says about
\* stagnation
error_context(ld, s, n) == IF check_stagnation(ld, s, n) THEN "different-approach" ELSE ""

\* one pass of the attempt loop up to the verify phase: the checks at the top
\* of the loop, the implement phase, and the progress check
ImplementAttempt ==
    /\ pc = "implement-attempt"
    /\ LET name == ImplementName(step, attempt)
       IN  IF Refused(state)
           THEN /\ Refuse(state, log_dir, name)
                /\ UNCHANGED <<devs, progress, head>>
           ELSE \E out \in Outcomes(name) :
                   /\ Allowed(name, out)
                   /\ Spend(name, out)
                   /\ \E called \in {run_phase(state, log_dir, kill, name, out)} :
                      \E r \in {[called EXCEPT !.ld.instructed =
                                                error_context(log_dir, step, attempt)]} :
                      LET current == IF out.commit THEN head + 1 ELSE head
                          c == check(progress, current)
                          stalled == [r.st EXCEPT !.status = "stalled_no_progress"]
                      IN  IF r.raised # ""
                          THEN Fail(r.st, r.ld, r.raised) /\ UNCHANGED <<progress, head>>
                          ELSE /\ head' = current
                               /\ progress' = [c.pt EXCEPT !.idle = IF out.commit THEN 0 ELSE @ + 1]
                               /\ IF ~ c.ok
                                  THEN Fail(stalled,
                                            [r.ld EXCEPT !.checkpoint = <<save_checkpoint(stalled)>>,
                                                         !.journal = Append(@, "checkpoint.json")],
                                            "stall")
                                  ELSE Goto(r.st, r.ld, "verify-attempt")
    /\ UNCHANGED <<steps, step, attempt, Frame>>

fast_mode(n) == n < MAX_VERIFY_RETRIES

test_instruction(n) == IF fast_mode(n) THEN "fast" ELSE "full"

\* the rest of the pass: the verify phase inside try/except RuntimeError, the
\* verdict, and what main does with the value implement_and_verify returns
VerifyAttempt ==
    /\ pc = "verify-attempt"
    /\ LET name == VerifyName(step, attempt)
       IN  \E out \in Outcomes(name) :
              /\ IF Refused(state) THEN out = Nominal(name) ELSE Allowed(name, out)
              /\ IF Refused(state) THEN UNCHANGED devs ELSE Spend(name, out)
              /\ \E called \in {run_phase(state, log_dir, kill, name, out)} :
                 \E r \in {IF called.raised \in {"kill", "cost"} THEN called
                           ELSE [called EXCEPT !.ld.instructed = test_instruction(attempt)]} :
                 LET verify_result == IF r.raised # ""
                                      THEN PhaseResult(name, 0, "FAIL", "")
                                      ELSE r.result
                     blocked == [r.st EXCEPT !.status = "blocked"]
                 IN  IF verify_result.verdict \in PassVerdicts
                     THEN IF step < steps
                          THEN /\ Goto(r.st, r.ld, "implement-attempt")
                               /\ step' = step + 1
                               /\ attempt' = 1
                          ELSE /\ Advance(r.st, r.ld, holdouts, "holdout-validate")
                               /\ UNCHANGED <<step, attempt>>
                     ELSE IF attempt = MAX_VERIFY_RETRIES
                     THEN /\ Exit(blocked,
                                  [r.ld EXCEPT !.checkpoint = <<save_checkpoint(blocked)>>,
                                               !.blocked = @ \cup {StepId(step)},
                                               !.journal = @ \o <<"checkpoint.json", "blocked">>],
                                  3, r.raised)
                          /\ UNCHANGED <<step, attempt>>
                     ELSE /\ pc' = "implement-attempt"
                          /\ state' = r.st
                          /\ log_dir' = r.ld
                          /\ raised' = r.raised
                          /\ attempt' = attempt + 1
                          /\ UNCHANGED <<step, metrics, exit_code>>
    /\ UNCHANGED <<steps, progress, head, Frame>>

----------------------------------------------------------------------------
\* The last stages of main

HoldoutValidate ==
    /\ pc = "holdout-validate"
    /\ LET name == "holdout-validate"
       IN  IF Refused(state)
           THEN /\ Refuse(state, log_dir, name)
                /\ UNCHANGED devs
           ELSE \E out \in Outcomes(name) :
                   /\ Allowed(name, out)
                   /\ Spend(name, out)
                   /\ \E r \in {run_phase(state, log_dir, kill, name, out)} :
                          IF r.raised # "" THEN Fail(r.st, r.ld, r.raised)
                          ELSE IF route_from_gate("holdout-validate", r.result.verdict, 0)
                                    = "implement"
                          THEN LET failed == [r.st EXCEPT !.status = "holdout_failed"]
                               IN  Exit(failed,
                                        [r.ld EXCEPT !.checkpoint = <<save_checkpoint(failed)>>,
                                                     !.journal = Append(@, "checkpoint.json")],
                                        4, "")
                          ELSE Advance(r.st, r.ld, holdouts, "security-audit")
    /\ UNCHANGED <<Locals, Frame>>

SecurityAudit ==
    /\ pc = "security-audit"
    /\ LET name == "security-audit"
       IN  IF Refused(state)
           THEN /\ Refuse(state, log_dir, name)
                /\ UNCHANGED devs
           ELSE \E out \in Outcomes(name) :
                   /\ Allowed(name, out)
                   /\ Spend(name, out)
                   /\ \E r \in {run_phase(state, log_dir, kill, name, out)} :
                          IF r.raised # "" THEN Fail(r.st, r.ld, r.raised)
                          ELSE IF route_from_gate("security-audit", r.result.verdict, 0)
                                    = "implement"
                          THEN Goto(r.st, r.ld, "security-fix")
                          ELSE Advance(r.st, r.ld, holdouts, "ship")
    /\ UNCHANGED <<Locals, Frame>>

SecurityFix ==
    /\ pc = "security-fix"
    /\ Call(state, log_dir, "security-fix", "ship")
    /\ UNCHANGED <<Locals, Frame>>

Ship ==
    /\ pc = "ship"
    /\ Call(state, log_dir, "ship", "done")
    /\ UNCHANGED <<Locals, Frame>>

----------------------------------------------------------------------------
\* Process start

\* python run_pipeline.py TICKET: main up to its first run_phase
Start ==
    /\ pc = "start"
    /\ Advance(NewState(0, ""), [log_dir EXCEPT !.journal = <<>>, !.instructed = ""],
               holdouts, "phase0")
    /\ UNCHANGED <<Locals, Frame, devs>>

\* python run_pipeline.py TICKET --resume <log_dir>, in a new process: main
\* up to its first run_phase
Resume ==
    /\ pc = "exited"
    /\ resumes < MaxResumes
    /\ log_dir.checkpoint # <<>>
    /\ LET checkpoint == log_dir.checkpoint[1]
       IN  /\ Advance(NewState(checkpoint.total_cost, checkpoint.current_phase),
                      [log_dir EXCEPT !.journal = <<>>, !.instructed = ""],
                      holdouts, "phase0")
           /\ start_cost' = checkpoint.total_cost
           /\ resumed_completed' =
                 {checkpoint.phases[i].name : i \in 1..Len(checkpoint.phases)}
    /\ progress' = NewProgress
    /\ steps' = 0
    /\ step' = 0
    /\ attempt' = 0
    /\ resumes' = resumes + 1
    /\ UNCHANGED <<cfg, kill, holdouts, head, devs>>

\* python run_pipeline.py TICKET --resume <dir> on a directory that holds no
\* checkpoint.json: sys.exit(1) before the try block of main is entered
ResumeMissing ==
    /\ pc \in {"start", "exited"}
    /\ resumes < MaxResumes
    /\ log_dir.checkpoint = <<>>
    /\ pc' = "exited"
    /\ state' = NewState(0, "")
    /\ exit_code' = 1
    /\ raised' = ""
    /\ progress' = NewProgress
    /\ resumes' = resumes + 1
    /\ UNCHANGED <<cfg, steps, step, attempt, log_dir, metrics, kill, holdouts, head,
                   devs, start_cost, resumed_completed>>

----------------------------------------------------------------------------
\* The human: the kill-switch file and the approval markers

KillSwitchCreate ==
    /\ ~ kill
    /\ devs < MaxDeviations
    /\ kill' = TRUE
    /\ devs' = devs + 1
    /\ UNCHANGED <<cfg, pc, state, progress, steps, step, attempt, log_dir, metrics,
                   holdouts, head, exit_code, raised, resumes, start_cost,
                   resumed_completed>>

KillSwitchRemove ==
    /\ kill
    /\ kill' = FALSE
    /\ UNCHANGED <<cfg, pc, state, progress, steps, step, attempt, log_dir, metrics,
                   holdouts, head, exit_code, raised, devs, resumes, start_cost,
                   resumed_completed>>

Approve ==
    /\ \E g \in cfg.HUMAN_GATES \ log_dir.approved :
          log_dir' = [log_dir EXCEPT !.approved = @ \cup {g}]
    /\ UNCHANGED <<cfg, pc, state, progress, steps, step, attempt, metrics, kill,
                   holdouts, head, exit_code, raised, devs, resumes, start_cost,
                   resumed_completed>>

----------------------------------------------------------------------------
\* Specification

EmptyLogDir ==
    [ checkpoint |-> <<>>, costs |-> <<>>, phase0 |-> -1, blocked |-> {}, approved |-> {},
      outputs |-> <<>>, journal |-> <<>>, instructed |-> "" ]

Init ==
    /\ cfg \in Configs
    /\ pc = "start"
    /\ state = NewState(0, "")
    /\ progress = NewProgress
    /\ steps = 0
    /\ step = 0
    /\ attempt = 0
    /\ log_dir = EmptyLogDir
    /\ metrics = <<>>
    /\ kill = FALSE
    /\ holdouts \in BOOLEAN
    /\ head = 0
    /\ exit_code = -1
    /\ raised = ""
    /\ devs = 0
    /\ resumes = 0
    /\ start_cost = 0
    /\ resumed_completed = {}

Next ==
    \/ Start
    \/ Phase0
    \/ Interrogate
    \/ InterrogationReview
    \/ InterrogationReviewPass2
    \/ InterrogateV2
    \/ GenerateDocs
    \/ DocReview
    \/ DocReviewPass2
    \/ GenerateDocsV2
    \/ WriteSpecs
    \/ HoldoutGenerate
    \/ ExtractSteps
    \/ ImplementAttempt
    \/ VerifyAttempt
    \/ HoldoutValidate
    \/ SecurityAudit
    \/ SecurityFix
    \/ Ship
    \/ Resume
    \/ ResumeMissing
    \/ KillSwitchCreate
    \/ KillSwitchRemove
    \/ Approve

Spec == Init /\ [][Next]_vars

----------------------------------------------------------------------------
\* Properties: cost ceiling and kill switch

Last(seq) == seq[Len(seq)]

\* C1 as stated: in every reachable state total_cost is at most max_cost
C1_CostNeverAboveCeiling == state.total_cost <= state.max_cost

\* C1, amended: the ceiling is polled before a phase and the phase that
\* crosses it is recorded in full, so total_cost can exceed max_cost; but no
\* phase is run once it does: the total without the cost of the last phase
\* recorded is at most max_cost, and a run that has recorded no phase still
\* has the total it started with
C1_NoPhaseAboveCeiling ==
    IF state.phases = <<>> THEN state.total_cost = start_cost
    ELSE state.total_cost - Last(state.phases).cost_usd <= state.max_cost

\* a paid phase has taken the total over the ceiling
C1_Witness ==
    /\ state.phases # <<>>
    /\ Last(state.phases).cost_usd > 0
    /\ state.total_cost > state.max_cost

\* main is at a run_phase call and takes the step that makes it
RunPhaseStep == pc \notin {"start", "exited"} /\ pc' # pc

\* C2: every run_phase call checks the kill switch first and the cost ceiling
\* second; when the file exists it raises the kill-switch error, otherwise
\* when the total exceeds the ceiling it raises the cost error, and in both
\* cases the agent is not invoked, no PhaseResult is appended and no cost is
\* added; otherwise exactly one PhaseResult is appended
C2_ChecksBeforeAgent ==
    [][ RunPhaseStep =>
          IF kill
          THEN raised' = "kill" /\ state'.phases = state.phases
               /\ state'.total_cost = state.total_cost
          ELSE IF state.total_cost > state.max_cost
          THEN raised' = "cost" /\ state'.phases = state.phases
               /\ state'.total_cost = state.total_cost
          ELSE /\ raised' \notin {"kill", "cost"}
               /\ Len(state'.phases) = Len(state.phases) + 1 ]_vars

\* a cost-ceiling check has refused a phase of a run that had run phases
C2_Witness ==
    /\ raised = "cost"
    /\ ~ kill
    /\ state.phases # <<>>
    /\ state.total_cost > state.max_cost

\* C3 as stated: a run whose last run_phase call raised the kill-switch or
\* the cost-ceiling error, at any phase, ends with persisted status failed and
\* exit code 1
C3_CheckFailureTerminates ==
    (pc = "exited" /\ raised \in {"kill", "cost"}) =>
       /\ state.status = "failed"
       /\ exit_code = 1
       /\ log_dir.checkpoint[1].status = "failed"

----------------------------------------------------------------------------
\* Properties: the implementation loop

\* positions in the phase list of st that hold one of the names
Positions(st, names) == {i \in 1..Len(st.phases) : st.phases[i].name \in names}

\* the attempt numbers of the implement phases of step s in the phase list
ImplementAttempts(st, s) == {n \in AttemptRange : ImplementName(s, n) \in PhaseNames(st)}

\* the attempt numbers of the verify phases of step s in the phase list
VerifyAttempts(st, s) == {n \in AttemptRange : VerifyName(s, n) \in PhaseNames(st)}

\* C4 as stated: per step the implement phases and the verify phases are each
\* at most MAX_VERIFY_RETRIES and their attempt numbers are 1..k without gaps
C4_AttemptsBoundedNoGaps ==
    \A s \in StepRange :
       /\ Cardinality(Positions(state, ImplementNames(s))) <= cfg.MAX_VERIFY_RETRIES
       /\ Cardinality(Positions(state, VerifyNames(s))) <= cfg.MAX_VERIFY_RETRIES
       /\ ImplementAttempts(state, s)
             = 1..Cardinality(Positions(state, ImplementNames(s)))
       /\ VerifyAttempts(state, s)
             = 1..Cardinality(Positions(state, VerifyNames(s)))

AllVerifiesFailed(s) ==
    \A n \in 1..cfg.MAX_VERIFY_RETRIES :
       \E i \in 1..Len(state.phases) :
          /\ state.phases[i].name = Name("verify", StepId(s), n)
          /\ state.phases[i].verdict \notin PassVerdicts

\* C6: when all MAX_VERIFY_RETRIES verify attempts of a step have a non-pass
\* verdict the run has ended with persisted status blocked and exit code 3,
\* blocked-<step_id>.txt exists, and the last verify of the step is the last
\* phase of the state and of the cost ledger
C6_BlockedAfterAllVerifiesFail ==
    \A s \in StepRange :
       AllVerifiesFailed(s) =>
          /\ pc = "exited"
          /\ state.status = "blocked"
          /\ exit_code = 3
          /\ StepId(s) \in log_dir.blocked
          /\ log_dir.checkpoint[1].status = "blocked"
          /\ log_dir.costs[1].status = "blocked"
          /\ Last(state.phases).name = Name("verify", StepId(s), cfg.MAX_VERIFY_RETRIES)
          /\ Last(log_dir.costs[1].phases).name
                = Name("verify", StepId(s), cfg.MAX_VERIFY_RETRIES)

\* the second step of a plan has failed its verification on every attempt of a
\* run that allows more than one
C6_Witness ==
    /\ cfg.MAX_VERIFY_RETRIES > 1
    /\ AllVerifiesFailed(2)
    /\ exit_code = 3

----------------------------------------------------------------------------
\* Properties: resume, ledger and human gates

\* C7 as stated: a resumed run executes no phase whose name is in the
\* completed-phase list of the checkpoint it resumed from
C7_NoCompletedPhaseRerun ==
    \A i \in 1..Len(state.phases) : state.phases[i].name \notin resumed_completed

\* C8 as stated: a resumed run ends with status completed only after
\* executing ship
C8_ResumedCompletesAfterShip ==
    (resumes > 0 /\ pc = "exited" /\ state.status = "completed")
       => "ship" \in PhaseNames(state)

\* C9 as stated: once costs.json and checkpoint.json are both written, the
\* per-phase costs of costs.json add up to total_cost of checkpoint.json
C9_LedgerSumEqualsTotal ==
    (log_dir.checkpoint # <<>> /\ log_dir.costs # <<>>)
       => SumCost(log_dir.costs[1].phases) = log_dir.checkpoint[1].total_cost

\* the phase names under which the stage of a gate is executed
StagePhases(g) == {g, g \o "-pass1", g \o "-pass2"}

\* C10 as stated: a phase listed in HUMAN_GATES is executed only when its
\* approval marker exists, on fresh and on resumed runs (markers are never
\* removed)
C10_GateNeedsMarker ==
    \A g \in cfg.HUMAN_GATES :
       (PhaseNames(state) \cap StagePhases(g) # {}) => g \in log_dir.approved

----------------------------------------------------------------------------
\* Properties: tiers

\* the skip set of a tier
SkipSet(tier) ==
    CASE tier = "nano" ->
           { "interrogation-review", "generate-docs", "doc-review", "write-specs",
             "holdout-generate", "holdout-validate", "security-audit" }
      [] tier = "quick" ->
           {"write-specs", "holdout-generate", "holdout-validate", "security-audit"}
      [] tier = "standard" -> {"holdout-generate", "holdout-validate"}
      [] OTHER -> {}

\* the phase names under which the stage of a phase of PHASE_ORDER runs agents
StageFamily(p) == StagePhases(p) \cup {p \o "-v2", p \o "-parallel"}

\* C11: no phase of the skip set of the resolved tier, under its own name or
\* the name of a pass or variant of its stage, is in the phase list
C11_SkipSetNeverRun ==
    \A p \in SkipSet(state.resolved_tier) :
       PhaseNames(state) \cap StageFamily(p) = {}

\* a run of tier nano has run ship
C11_Witness ==
    /\ state.resolved_tier = "nano"
    /\ "ship" \in PhaseNames(state)
    /\ state.status = "completed"

\* C12 as stated: on a fresh run with PIPELINE_TIER=auto, once phase0 has run
\* the resolved tier is the one of the SCOPE digit phase0 printed (3 when it
\* printed none)
C12_AutoTierFromScope ==
    (cfg.PIPELINE_TIER = "auto" /\ resumes = 0 /\ "phase0" \in PhaseNames(state))
       => state.resolved_tier
             = (CASE log_dir.phase0 = 1 -> "nano"
                  [] log_dir.phase0 = 2 -> "quick"
                  [] log_dir.phase0 \in {4, 5} -> "full"
                  [] OTHER -> "standard")

----------------------------------------------------------------------------
\* Properties: routing

\* C13 as stated: a gate phase whose verdict route_from_gate maps to BLOCKED
\* is the last phase of the run, and the run does not end completed
C13_BlockedIsTerminal ==
    \A i \in 1..Len(state.phases) :
       ( /\ state.phases[i].name \in
               {"interrogation-review", "doc-review", "holdout-validate", "security-audit"}
         /\ state.phases[i].error = ""
         /\ state.phases[i].verdict
               \in {"UNKNOWN", "BLOCK", "NEEDS_HUMAN", "FAIL", "ITERATE"}
         /\ ~ (state.phases[i].name \in {"interrogation-review", "doc-review"}
                  /\ state.phases[i].verdict = "ITERATE")
         /\ ~ (state.phases[i].name \in {"holdout-validate", "security-audit"}
                  /\ state.phases[i].verdict = "FAIL") )
       => /\ i = Len(state.phases)
          /\ state.status # "completed"

\* the verdict run_review_with_bias_check returned when its last phase is at
\* position i of the phase list ("" when position i does not end a review)
ReviewVerdict(g, i) ==
    IF state.phases[i].error # "" THEN ""
    ELSE IF state.phases[i].name = g THEN state.phases[i].verdict
    ELSE IF state.phases[i].name = g \o "-pass2" /\ i > 1
    THEN IF state.phases[i - 1].verdict = state.phases[i].verdict
         THEN state.phases[i].verdict
         ELSE ""
    ELSE ""

\* C14 as stated: a review gate whose verdict is BLOCK or NEEDS_HUMAN (the
\* single pass, or both passes alike) ends the run with status needs_human
\* and exit code 2, and is its last phase
C14_ReviewBlockNeedsHuman ==
    \A g \in {"interrogation-review", "doc-review"} :
       \A i \in 1..Len(state.phases) :
          ReviewVerdict(g, i) \in {"BLOCK", "NEEDS_HUMAN"}
             => /\ i = Len(state.phases)
                /\ pc = "exited"
                /\ log_dir.checkpoint[1].status = "needs_human"
                /\ exit_code = 2

\* C15 as stated: a run the progress tracker stalled ends with exit code 1 and
\* status stalled_no_progress in checkpoint, cost ledger and metrics entry
C15_StallStatusPersisted ==
    raised = "stall"
       => /\ pc = "exited"
          /\ exit_code = 1
          /\ log_dir.checkpoint[1].status = "stalled_no_progress"
          /\ log_dir.costs[1].status = "stalled_no_progress"
          /\ Last(metrics).status = "stalled_no_progress"

\* C16: a holdout-validate phase that returned verdict FAIL is the last phase
\* of the run, which has ended with status holdout_failed in state,
\* checkpoint, cost ledger and metrics entry, and exit code 4
C16_HoldoutFailEndsRun ==
    \A i \in 1..Len(state.phases) :
       ( /\ state.phases[i].name = "holdout-validate"
         /\ state.phases[i].error = ""
         /\ state.phases[i].verdict = "FAIL" )
       => /\ i = Len(state.phases)
          /\ PhaseNames(state) \cap {"security-audit", "security-fix", "ship"} = {}
          /\ pc = "exited"
          /\ exit_code = 4
          /\ state.status = "holdout_failed"
          /\ log_dir.checkpoint[1].status = "holdout_failed"
          /\ log_dir.costs[1].status = "holdout_failed"
          /\ Last(metrics).status = "holdout_failed"

\* the holdout validation of a run has failed
C16_Witness ==
    /\ state.phases # <<>>
    /\ Last(state.phases).name = "holdout-validate"
    /\ Last(state.phases).verdict = "FAIL"
    /\ exit_code = 4

----------------------------------------------------------------------------
\* Properties: persistence

\* C17 as stated: whenever the process has exited, the last files it wrote
\* are the checkpoint, the cost ledger and the metrics file, they hold the
\* final state, and every process that exited added one metrics entry
C17_EveryExitPersists ==
    pc = "exited"
       => /\ log_dir.checkpoint = <<save_checkpoint(state)>>
          /\ log_dir.costs = <<save_costs(state)>>
          /\ Len(metrics) = resumes + 1
          /\ Last(metrics) = run_entry(state)
          /\ Len(log_dir.journal) >= 3
          /\ SubSeq(log_dir.journal, Len(log_dir.journal) - 2, Len(log_dir.journal))
                = <<"checkpoint.json", "costs.json", "metrics">>

\* C18 as stated: when the process has exited and left a checkpoint, its
\* status is completed exactly when the exit code is 0, and otherwise one of
\* the terminal error statuses, never running
C18_FinalStatusTerminal ==
    (pc = "exited" /\ log_dir.checkpoint # <<>>)
       => /\ log_dir.checkpoint[1].status # "running"
          /\ (log_dir.checkpoint[1].status = "completed") <=> (exit_code = 0)
          /\ log_dir.checkpoint[1].status \in
                { "completed", "failed", "blocked", "stalled_no_progress",
                  "needs_human", "needs_human_gate", "holdout_failed" }

\* C19: when the last program step invoked the agent, it wrote the checkpoint
\* and then the cost ledger right after the output of the phase, and the
\* checkpoint on disk lists the phases of the state, in order, with their
\* costs and the total cost; also for phases that timed out or failed
C19_CheckpointThenLedger ==
    \A i \in 1..Len(log_dir.journal) :
       log_dir.journal[i] = "output"
          => /\ Len(log_dir.journal) >= i + 2
             /\ log_dir.journal[i + 1] = "checkpoint.json"
             /\ log_dir.journal[i + 2] = "costs.json"
             /\ Len(log_dir.checkpoint[1].phases) = Len(state.phases)
             /\ \A j \in 1..Len(state.phases) :
                   /\ log_dir.checkpoint[1].phases[j].name = state.phases[j].name
                   /\ log_dir.checkpoint[1].phases[j].cost = state.phases[j].cost_usd
             /\ log_dir.checkpoint[1].total_cost = state.total_cost

\* the last program step ran a phase that failed, after other phases
C19_Witness ==
    /\ Len(log_dir.journal) >= 4
    /\ log_dir.journal[2] = "output"
    /\ Len(state.phases) > 1
    /\ Last(state.phases).error # ""

----------------------------------------------------------------------------
\* Properties: phase results

\* C21: no PhaseResult of the phase list has an error together with a verdict
\* other than UNKNOWN, whether its agent returned, timed out or failed
C21_NoErrorWithVerdict ==
    \A i \in 1..Len(state.phases) :
       state.phases[i].error # "" => state.phases[i].verdict = "UNKNOWN"

\* a phase that failed is in the phase list, after a phase with a verdict
C21_Witness ==
    /\ Len(state.phases) > 1
    /\ Last(state.phases).error # ""
    /\ \E i \in 1..Len(state.phases) : state.phases[i].verdict # "UNKNOWN"

\* C22 as stated: every PhaseResult of the phase list has a verdict other
\* than UNKNOWN or a non-empty error, whatever text the agent returned
C22_VerdictOrError ==
    \A i \in 1..Len(state.phases) :
       state.phases[i].verdict # "UNKNOWN" \/ state.phases[i].error # ""

\* C28 as stated: a text no verdict can be parsed from is never an error: the
\* error of a PhaseResult is the timeout or the failure of its agent call,
\* and the process was not ended by a parsing exception
C28_ParseFailureNoError ==
    \A i \in 1..Len(state.phases) :
       state.phases[i].error \in {"", "Timeout", "agent error"}

----------------------------------------------------------------------------
\* Properties: the dual-pass reviewer

Reviews == {"interrogation-review", "doc-review"}

\* the positions of the phase list that hold the phase named name
Runs(name) == {i \in 1..Len(state.phases) : state.phases[i].name = name}

\* C24: a review runs as the one phase <review> in the tiers standard and
\* quick and as <review>-pass1 followed by <review>-pass2 in every other
\* tier: pass2 comes right after a pass1 that returned, a pass1 that returned
\* is followed by pass2 unless pass2 is the call that comes next or one of
\* the two checks of run_phase refused it, and no pass runs twice
C24_SinglePassOrTwoInOrder ==
    \A g \in Reviews :
       /\ Runs(g) # {} => state.resolved_tier \in {"standard", "quick"}
       /\ Runs(g \o "-pass1") \cup Runs(g \o "-pass2") # {}
             => /\ state.resolved_tier \notin {"standard", "quick"}
                /\ Runs(g) = {}
       /\ Cardinality(Runs(g)) <= 1
       /\ Cardinality(Runs(g \o "-pass1")) <= 1
       /\ Cardinality(Runs(g \o "-pass2")) <= 1
       /\ \A i \in Runs(g \o "-pass2") :
             /\ i - 1 \in Runs(g \o "-pass1")
             /\ state.phases[i - 1].error = ""
       /\ \A i \in Runs(g \o "-pass1") :
             state.phases[i].error = ""
                => IF i < Len(state.phases) THEN i + 1 \in Runs(g \o "-pass2")
                   ELSE \/ pc = g \o "-pass2"
                        \/ pc = "exited" /\ raised \in {"kill", "cost"}

\* both passes of a review have run
C24_Witness ==
    /\ Runs("doc-review-pass1") # {}
    /\ Runs("doc-review-pass2") # {}
    /\ Runs("interrogation-review-pass2") # {}

----------------------------------------------------------------------------
\* Properties: the implementation loop and the skipped stages

\* C29 as stated: a verify agent of attempt n is told to run the full test
\* suite when n = MAX_VERIFY_RETRIES and the fast command when n is smaller,
\* and a step is declared blocked only after its verify phase of attempt
\* MAX_VERIFY_RETRIES has run with the full test suite
C29_FullSuiteBeforeBlocked ==
    /\ \A s \in StepRange, n \in AttemptRange :
          ( /\ Len(log_dir.journal) >= 2
            /\ log_dir.journal[2] = "output"
            /\ state.phases # <<>>
            /\ Last(state.phases).name = VerifyName(s, n) )
          => log_dir.instructed = (IF n = cfg.MAX_VERIFY_RETRIES THEN "full" ELSE "fast")
    /\ (pc = "exited" /\ state.status = "blocked")
          => /\ state.phases # <<>>
             /\ Last(state.phases).name = VerifyName(step, cfg.MAX_VERIFY_RETRIES)
             /\ log_dir.instructed = "full"

\* C30 as stated: with DOC_TEMPLATES_MODE none no generate-docs phase, no
\* doc-review phase or pass and no generate-docs-v2 phase is ever run
C30_NoDocsWhenModeNone ==
    cfg.DOC_TEMPLATES_MODE = "none"
       => PhaseNames(state) \cap (StageFamily("generate-docs") \cup StageFamily("doc-review"))
             = {}

----------------------------------------------------------------------------
\* save_costs step by step, in a process that can crash between any two file
\* operations. Here log_dir holds two files, costs.json and costs.json.tmp,
\* each absent (<<>>) or present with the tokens written to it so far, and pc
\* is the position inside save_costs

\* largest number of phases of a state that is saved
MaxSaved == 2

Token(key, str, num) == [key |-> key, str |-> str, num |-> num]

RECURSIVE DumpPhases(_)
DumpPhases(ps) ==
    IF ps = <<>> THEN <<>>
    ELSE <<Token("name", ps[1].name, 0), Token("cost", "", ps[1].cost)>>
            \o DumpPhases(Tail(ps))

\* json.dumps of the ledger save_costs builds: the text as a token sequence
Dumps(costs) ==
    <<Token("{", "", 0)>> \o DumpPhases(costs.phases)
       \o << Token("total_cost", "", costs.total_cost), Token("status", costs.status, 0),
             Token("started", costs.started, 0), Token("}", "", 0) >>

\* the text is a whole JSON object
Complete(text) ==
    /\ Len(text) >= 5
    /\ text[1].key = "{"
    /\ text[Len(text)].key = "}"

\* json.loads of a whole ledger text
Loads(text) ==
    [ phases |-> [i \in 1..((Len(text) - 5) \div 2) |->
                    [name |-> text[2 * i].str, cost |-> text[2 * i + 1].num]],
      total_cost |-> text[Len(text) - 3].num,
      status |-> text[Len(text) - 2].str,
      started |-> text[Len(text) - 1].str ]

\* the states save_costs is called with
SavedPhases ==
    LET names == Stages
    IN  UNION { { [i \in 1..n |-> PhaseResult(names[i], c[i], "UNKNOWN", "")] :
                     c \in [1..n -> {0, 1}] } : n \in 0..MaxSaved }

SavedStates ==
    { [ status |-> st, current_phase |-> "", total_cost |-> SumCostUsd(ps),
        max_cost |-> MaxCost, resume_phase |-> "", phases |-> ps, resolved_tier |-> "" ] :
         ps \in SavedPhases, st \in {"running", "failed"} }

\* a write_text that goes to costs.json itself
WriteInPlace == "costs_json"

\* the file write_text goes to: tmp_file
WriteTarget == "costs_tmp"

Others ==
    <<cfg, state, progress, steps, step, attempt, metrics, kill, holdouts, head,
      exit_code, raised, devs, resumes, start_cost, resumed_completed>>

SaveCostsInit ==
    /\ cfg = BaseConfig
    /\ pc = "save_costs"
    /\ state \in SavedStates
    /\ log_dir \in [ costs_json : {<<>>} \cup {<<Dumps(save_costs(s))>> : s \in SavedStates},
                     costs_tmp : {<<>>} ]
    /\ progress = NewProgress
    /\ steps = 0
    /\ step = 0
    /\ attempt = 0
    /\ metrics = <<>>
    /\ kill = FALSE
    /\ holdouts = FALSE
    /\ head = 0
    /\ exit_code = -1
    /\ raised = ""
    /\ devs = 0
    /\ resumes = 0
    /\ start_cost = 0
    /\ resumed_completed = {}

\* write_text opens the file: it exists and is empty
OpenTmp ==
    /\ pc = "save_costs"
    /\ log_dir' = [log_dir EXCEPT ![WriteTarget] = << <<>> >>]
    /\ pc' = "write_text"
    /\ UNCHANGED Others

\* write_text writes the next piece of the text
WriteTmp ==
    /\ pc = "write_text"
    /\ LET text == Dumps(save_costs(state))
           written == Len(log_dir[WriteTarget][1])
       IN  /\ log_dir' = [log_dir EXCEPT ![WriteTarget] = <<Append(@[1], text[written + 1])>>]
           /\ pc' = IF written + 1 = Len(text) THEN "rename" ELSE "write_text"
    /\ UNCHANGED Others

\* tmp_file.rename(cost_file), in one step of the file system
RenameTmp ==
    /\ pc = "rename"
    /\ log_dir' = IF log_dir.costs_tmp = <<>> THEN log_dir
                  ELSE [costs_json |-> log_dir.costs_tmp, costs_tmp |-> <<>>]
    /\ pc' = "returned"
    /\ UNCHANGED Others

\* the process dies inside save_costs
Crash ==
    /\ pc \in {"save_costs", "write_text", "rename"}
    /\ pc' = "crashed"
    /\ UNCHANGED <<log_dir, Others>>

SaveCostsNext == OpenTmp \/ WriteTmp \/ RenameTmp \/ Crash

SaveCostsSpec == SaveCostsInit /\ [][SaveCostsNext]_vars

\* C20: wherever the process is inside save_costs, and after a crash at any
\* point of it, costs.json is absent or holds a whole ledger that reads back
\* as written; once save_costs has returned it holds the ledger of the state
C20_LedgerNeverPartial ==
    /\ log_dir.costs_json # <<>>
          => /\ Complete(log_dir.costs_json[1])
             /\ Dumps(Loads(log_dir.costs_json[1])) = log_dir.costs_json[1]
    /\ pc = "returned"
          => /\ log_dir.costs_json # <<>>
             /\ Loads(log_dir.costs_json[1]) = save_costs(state)

\* the process has crashed with the temporary file partly written while an
\* earlier ledger exists
C20_Witness ==
    /\ pc = "crashed"
    /\ log_dir.costs_json # <<>>
    /\ log_dir.costs_tmp # <<>>
    /\ log_dir.costs_tmp[1] # <<>>
    /\ ~ Complete(log_dir.costs_tmp[1])

----------------------------------------------------------------------------
\* The functions of the parser, the router and the reviewer, each called once
\* with arguments drawn from bounded sets. Here state is the frame of the
\* call: the function, its arguments and, once pc is "returned", the value it
\* returned; raised is the exception that left the function ("" if none)

\* most lines of a text that is parsed
MaxLines == 2
\* most words of a line
MaxWords == 2
\* most characters of the number that follows "aggregate":
MaxChars == 3

Verdicts ==
    {"AUTO_PASS", "PASS", "PASS_WITH_NOTES", "ITERATE", "FAIL", "BLOCK", "NEEDS_HUMAN",
     "UNKNOWN"}

Gates == {"interrogation-review", "doc-review", "holdout-validate", "security-audit", "verify"}

get_config_int(config, key, default) == IF key \in DOMAIN config THEN config[key] ELSE default

\* a mapping that tests the thresholds in the opposite order
IterateFirst(score) ==
    LET t_auto == get_config_int(cfg, "THRESHOLD_AUTO_PASS", 90)
        t_pass == get_config_int(cfg, "THRESHOLD_PASS", 70)
        t_iterate == get_config_int(cfg, "THRESHOLD_ITERATE", 50)
    IN  IF score >= 10 * t_iterate THEN "ITERATE"
        ELSE IF score >= 10 * t_pass THEN "PASS_WITH_NOTES"
        ELSE IF score >= 10 * t_auto THEN "AUTO_PASS"
        ELSE "BLOCK"

\* score_to_verdict on a score in thousandths: score >= t / 100.0 is
\* score >= 10 * t here
score_to_verdict(score) ==
    LET t_auto == get_config_int(cfg, "THRESHOLD_AUTO_PASS", 90)
        t_pass == get_config_int(cfg, "THRESHOLD_PASS", 70)
        t_iterate == get_config_int(cfg, "THRESHOLD_ITERATE", 50)
    IN  IF score >= 10 * t_auto THEN "AUTO_PASS"
        ELSE IF score >= 10 * t_pass THEN "PASS_WITH_NOTES"
        ELSE IF score >= 10 * t_iterate THEN "ITERATE"
        ELSE "BLOCK"

\* the number a string of digits denotes
RECURSIVE Number(_)
Number(digits) ==
    IF digits = <<>> THEN 0
    ELSE 10 * Number(SubSeq(digits, 1, Len(digits) - 1))
            + (CHOOSE d \in 0..9 : ToString(d) = digits[Len(digits)])

Zero == [num |-> 0, scale |-> 0]

\* float() of a string of digits and points: the exception it raises and the
\* value num / 10^scale it returns
Float(chars) ==
    LET points == {i \in 1..Len(chars) : chars[i] = "."}
        digits == SelectSeq(chars, LAMBDA c : c # ".")
    IN  IF Cardinality(points) > 1 \/ digits = <<>>
        THEN [exc |-> "ValueError", value |-> Zero]
        ELSE [ exc |-> "",
               value |-> [ num |-> Number(digits),
                           scale |-> IF points = {} THEN 0
                                     ELSE Len(chars) - (CHOOSE i \in points : TRUE) ] ]

\* parse_satisfaction on a text in which chars is the run of digits and points
\* that follows the first "aggregate": (<<>> when the text holds none): the
\* ValueError of float() is caught
parse_satisfaction(chars) ==
    IF chars = <<>> THEN [exc |-> "", value |-> Zero]
    ELSE IF Float(chars).exc = "ValueError" THEN [exc |-> "", value |-> Zero]
    ELSE Float(chars)

CallFrame(fn, args) == [fn |-> fn, args |-> args, ret |-> <<>>]

RouteCalls ==
    { CallFrame("route_from_gate", <<g, v, n>>) :
         g \in Gates \cup {"ship"}, v \in Verdicts \cup {"**"}, n \in 0..(MaxRetries + 1) }

ReconcileCalls ==
    { CallFrame("reconcile", <<v1, v2, v_ext>>) :
         v1 \in Verdicts \ {"BLOCK"}, v2 \in Verdicts \ {"BLOCK"},
         v_ext \in (Verdicts \ {"BLOCK"}) \cup {""} }

Scores == {0, 299, 300, 499, 500, 501, 699, 700, 899, 900, 1000}

ScoreCalls == {CallFrame("score_to_verdict", <<s>>) : s \in Scores}

Percents == {0, 50, 70, 90, 100}

ThresholdConfigs ==
    {BaseConfig}
    \cup { t @@ BaseConfig :
             t \in [ THRESHOLD_AUTO_PASS : Percents, THRESHOLD_PASS : Percents,
                     THRESHOLD_ITERATE : Percents ] }

LinesOf(words) == UNION {[1..n -> words] : n \in 0..MaxWords}

TextsUpTo(lines) == UNION {[1..n -> lines] : n \in 0..MaxLines}

ParseVerdictCalls ==
    {CallFrame("parse_verdict", <<t>>) : t \in TextsUpTo(LinesOf({Marker, "PASS", "FAIL"}))}

ParseSatisfactionCalls ==
    { CallFrame("parse_satisfaction", <<c>>) :
         c \in UNION {[1..n -> {"0", "9", "."}] : n \in 0..MaxChars} }

FunctionsOthers ==
    <<cfg, progress, steps, step, attempt, log_dir, metrics, kill, holdouts, head,
      exit_code, devs, resumes, start_cost, resumed_completed>>

FunctionsInit ==
    /\ pc = "call"
    /\ raised = ""
    /\ \/ /\ cfg \in {[BaseConfig EXCEPT !.MAX_VERIFY_RETRIES = n] : n \in 1..MaxRetries}
          /\ state \in RouteCalls
       \/ /\ cfg = BaseConfig
          /\ state \in ReconcileCalls
       \/ /\ cfg \in ThresholdConfigs
          /\ state \in ScoreCalls
       \/ /\ cfg = BaseConfig
          /\ state \in ParseVerdictCalls
       \/ /\ cfg = BaseConfig
          /\ state \in ParseSatisfactionCalls
    /\ progress = NewProgress
    /\ steps = 0
    /\ step = 0
    /\ attempt = 0
    /\ log_dir = EmptyLogDir
    /\ metrics = <<>>
    /\ kill = FALSE
    /\ holdouts = FALSE
    /\ head = 0
    /\ exit_code = -1
    /\ devs = 0
    /\ resumes = 0
    /\ start_cost = 0
    /\ resumed_completed = {}

\* the function returns value, or exc leaves it
Return(exc, value) ==
    /\ pc' = "returned"
    /\ state' = [state EXCEPT !.ret = IF exc = "" THEN <<value>> ELSE <<>>]
    /\ raised' = exc
    /\ UNCHANGED FunctionsOthers

CallRoute ==
    /\ pc = "call"
    /\ state.fn = "route_from_gate"
    /\ Return("", route_from_gate(state.args[1], state.args[2], state.args[3]))

CallReconcile ==
    /\ pc = "call"
    /\ state.fn = "reconcile"
    /\ Return("", Reconcile(state.args[1], state.args[2], state.args[3]))

CallScore ==
    /\ pc = "call"
    /\ state.fn = "score_to_verdict"
    /\ Return("", score_to_verdict(state.args[1]))

CallParseVerdict ==
    /\ pc = "call"
    /\ state.fn = "parse_verdict"
    /\ Return(parse_verdict(state.args[1]).exc, parse_verdict(state.args[1]).value)

CallParseSatisfaction ==
    /\ pc = "call"
    /\ state.fn = "parse_satisfaction"
    /\ Return(parse_satisfaction(state.args[1]).exc, parse_satisfaction(state.args[1]).value)

FunctionsNext ==
    CallRoute \/ CallReconcile \/ CallScore \/ CallParseVerdict \/ CallParseSatisfaction

FunctionsSpec == FunctionsInit /\ [][FunctionsNext]_vars

\* the function fn has returned
HasReturned(fn) == pc = "returned" /\ state.fn = fn /\ raised = ""

\* the place of a verdict in FAIL > ITERATE > NEEDS_HUMAN > PASS_WITH_NOTES >
\* PASS > AUTO_PASS
Strictness(v) ==
    CASE v = "FAIL" -> 6
      [] v = "ITERATE" -> 5
      [] v = "NEEDS_HUMAN" -> 4
      [] v = "PASS_WITH_NOTES" -> 3
      [] v = "PASS" -> 2
      [] v = "AUTO_PASS" -> 1
      [] OTHER -> 0

\* C23 as stated: the reviewer returns the strictest of the verdicts that are
\* present (not empty and not UNKNOWN), which is their common value when they
\* agree
C23_StrictestPresentWins ==
    HasReturned("reconcile")
       => LET present == {state.args[i] : i \in 1..3} \ {"", "UNKNOWN"}
          IN  present # {}
                 => /\ state.ret[1] \in present
                    /\ \A v \in present : Strictness(v) <= Strictness(state.ret[1])

\* the table the router is specified by, for the gates interrogation-review,
\* doc-review and verify and for every pair the table does not hold; the
\* pass and FAIL verdicts of holdout-validate and security-audit are left open
Reference(gate, verdict, retries) ==
    IF gate \in {"interrogation-review", "doc-review"}
    THEN IF verdict \in {"AUTO_PASS", "PASS_WITH_NOTES", "PASS"}
         THEN {IF gate = "doc-review" THEN "write-specs" ELSE "generate-docs"}
         ELSE IF verdict = "ITERATE"
         THEN {IF gate = "doc-review" THEN "generate-docs" ELSE "interrogate"}
         ELSE {"BLOCKED"}
    ELSE IF gate = "verify"
    THEN IF verdict \in {"AUTO_PASS", "PASS_WITH_NOTES", "PASS"} THEN {"next-step-or-holdout"}
         ELSE IF retries >= cfg.MAX_VERIFY_RETRIES THEN {"BLOCKED"}
         ELSE {"implement"}
    ELSE IF gate \in {"holdout-validate", "security-audit"}
              /\ verdict \in {"AUTO_PASS", "PASS_WITH_NOTES", "PASS", "FAIL"}
    THEN {"security-audit", "ship", "implement", "BLOCKED"}
    ELSE {"BLOCKED"}

C26_LateGatesAdvanceOnPass ==
    ( /\ HasReturned("route_from_gate")
      /\ state.args[1] \in {"holdout-validate", "security-audit"} )
       => /\ state.args[2] \in {"AUTO_PASS", "PASS", "PASS_WITH_NOTES"}
             => state.ret[1] = (IF state.args[1] = "holdout-validate" THEN "security-audit"
                                ELSE "ship")
          /\ state.args[2] = "FAIL" => state.ret[1] = "implement"

\* the place of a verdict in BLOCK < ITERATE < PASS_WITH_NOTES < AUTO_PASS
Lenience(v) ==
    CASE v = "AUTO_PASS" -> 3
      [] v = "PASS_WITH_NOTES" -> 2
      [] v = "ITERATE" -> 1
      [] OTHER -> 0

\* C27: the verdict of a score is at least as lenient as the verdict of every
\* score below it, whatever the three thresholds are, and with the default
\* thresholds it is AUTO_PASS from 0.90, PASS_WITH_NOTES from 0.70, ITERATE
\* from 0.50 and BLOCK below
C27_ScoreToVerdictMonotone ==
    HasReturned("score_to_verdict")
       => /\ state.ret[1] \in {"BLOCK", "ITERATE", "PASS_WITH_NOTES", "AUTO_PASS"}
          /\ \A s \in Scores :
                s <= state.args[1]
                   => Lenience(score_to_verdict(s)) <= Lenience(state.ret[1])
          /\ cfg = BaseConfig
                => state.ret[1] = (IF state.args[1] >= 900 THEN "AUTO_PASS"
                                   ELSE IF state.args[1] >= 700 THEN "PASS_WITH_NOTES"
                                   ELSE IF state.args[1] >= 500 THEN "ITERATE"
                                   ELSE "BLOCK")

\* a score was mapped under thresholds that are not in descending order
C27_Witness ==
    /\ HasReturned("score_to_verdict")
    /\ cfg # BaseConfig
    /\ cfg.THRESHOLD_AUTO_PASS < cfg.THRESHOLD_PASS
    /\ cfg.THRESHOLD_PASS < cfg.THRESHOLD_ITERATE
    /\ state.args[1] = 700
    /\ state.ret[1] = "AUTO_PASS"

----------------------------------------------------------------------------
\* Properties: the order of the stages

\* C31 as stated: of two phases of the phase list that belong to different
\* stages of PHASE_ORDER, the one appended first belongs to the stage that
\* comes first in PHASE_ORDER, the configured one when it is set
C31_PhasesFollowConfiguredOrder ==
    \A i, j \in 1..Len(state.phases) :
       \A p, q \in {PHASE_ORDER[k] : k \in 1..Len(PHASE_ORDER)} :
          ( /\ i < j
            /\ p # q
            /\ state.phases[i].name \in StagePhases(p)
            /\ state.phases[j].name \in StagePhases(q) )
             => Index(PHASE_ORDER, p) < Index(PHASE_ORDER, q)

----------------------------------------------------------------------------
\* The process under fair scheduling

\* one step of a running main(): every await of main returns, the agent call
\* of run_phase being bounded by asyncio.wait_for
Step ==
    \/ Start
    \/ Phase0
    \/ Interrogate
    \/ InterrogationReview
    \/ InterrogationReviewPass2
    \/ InterrogateV2
    \/ GenerateDocs
    \/ DocReview
    \/ DocReviewPass2
    \/ GenerateDocsV2
    \/ WriteSpecs
    \/ HoldoutGenerate
    \/ ExtractSteps
    \/ ImplementAttempt
    \/ VerifyAttempt
    \/ HoldoutValidate
    \/ SecurityAudit
    \/ SecurityFix
    \/ Ship

\* the runs of tier full without holdout files, under every HUMAN_GATES and
\* MAX_VERIFY_RETRIES setting explored
FairInit ==
    /\ Init
    /\ cfg \in {BaseConfig, [BaseConfig EXCEPT !.HUMAN_GATES = {"doc-review"}]}
                \cup {[BaseConfig EXCEPT !.MAX_VERIFY_RETRIES = n] : n \in 1..MaxRetries}
    /\ ~ holdouts

\* a started process goes on until it exits; python is started again with
\* --resume, and the human acts, when they choose to
FairSpec == FairInit /\ [][Next]_vars /\ WF_vars(Step)

----------------------------------------------------------------------------
\* Properties: the happy path

\* the run so far is a happy one: fresh, tier full, every agent call made and
\* returned without error, no RuntimeError raised, every review pass
\* AUTO_PASS, every verify an attempt 1 that passed, holdout-validate and
\* security-audit PASS, and a new commit from every implement phase
HappyPath ==
    /\ cfg.PIPELINE_TIER = "full"
    /\ resumes = 0
    /\ raised = ""
    /\ \A i \in 1..Len(state.phases) :
          /\ state.phases[i].error = ""
          /\ state.phases[i].name \in ReviewNames => state.phases[i].verdict = "AUTO_PASS"
          /\ state.phases[i].name \in {"holdout-validate", "security-audit"}
                => state.phases[i].verdict = "PASS"
          /\ \A s \in StepRange :
                state.phases[i].name \in VerifyNames(s)
                   => /\ state.phases[i].name = VerifyName(s, 1)
                      /\ state.phases[i].verdict \in {"PASS", "AUTO_PASS", "PASS_WITH_NOTES"}
    /\ head = Cardinality(Positions(state, UNION {ImplementNames(s) : s \in StepRange}))

\* the run has executed ship and exited with code 0, the checkpoint says
\* completed, and the metrics entry of the run has retry_count 0
RunCompleted ==
    /\ pc = "exited"
    /\ exit_code = 0
    /\ "ship" \in PhaseNames(state)
    /\ log_dir.checkpoint # <<>>
    /\ log_dir.checkpoint[1].status = "completed"
    /\ metrics # <<>>
    /\ Last(metrics).retry_count = 0

\* C32: a run that stays on the happy path eventually executes ship, exits
\* with code 0 and checkpoint status completed, and appends a metrics entry
\* with retry_count 0 (every behaviour leaves the happy path or completes)
C32_HappyPathCompletes == <>(~ HappyPath \/ RunCompleted)

\* a happy run of NumSteps steps has completed
C32_Witness ==
    /\ HappyPath
    /\ RunCompleted
    /\ steps = NumSteps
    /\ Cardinality(PhaseNames(state) \cap ReviewNames) = 4

----------------------------------------------------------------------------
\* Properties: the order of the implementation loop

\* the phase at position i of the phase list is a verify phase that passed
VerifiedAt(i) ==
    /\ state.phases[i].error = ""
    /\ state.phases[i].verdict \in {"PASS", "AUTO_PASS", "PASS_WITH_NOTES"}

\* C33: an implement or verify phase of step N+1 comes after a verify phase
\* of step N with a pass verdict, and the phase that follows a failed verify
\* attempt k < MAX_VERIFY_RETRIES is implement attempt k+1 of the same step
C33_StepsSequentialRetryNext ==
    /\ \A i \in 1..Len(state.phases) : \A s \in StepRange :
          state.phases[i].name \in ImplementNames(s + 1) \cup VerifyNames(s + 1)
             => \E j \in 1..(i - 1) :
                   state.phases[j].name \in VerifyNames(s) /\ VerifiedAt(j)
    /\ \A i \in 1..(Len(state.phases) - 1) : \A s \in StepRange :
          \A k \in 1..(cfg.MAX_VERIFY_RETRIES - 1) :
             (state.phases[i].name = VerifyName(s, k) /\ ~ VerifiedAt(i))
                => state.phases[i + 1].name = ImplementName(s, k + 1)

\* step 1 was verified at its second attempt and step 2 has begun
C33_Witness ==
    \E i \in 1..Len(state.phases) :
       /\ i + 3 <= Len(state.phases)
       /\ state.phases[i].name = VerifyName(1, 1)
       /\ state.phases[i].verdict = "FAIL"
       /\ state.phases[i + 1].name = ImplementName(1, 2)
       /\ state.phases[i + 2].name = VerifyName(1, 2)
       /\ VerifiedAt(i + 2)
       /\ state.phases[i + 3].name = ImplementName(2, 1)

----------------------------------------------------------------------------
\* Properties: the verdict vocabulary

\* C34 as stated: the verdict of every PhaseResult of the phase list is one
\* of the eight verdict values, whatever token follows VERDICT:
C34_VerdictsFromVocabulary ==
    \A i \in 1..Len(state.phases) :
       state.phases[i].verdict
          \in { "AUTO_PASS", "PASS", "PASS_WITH_NOTES", "ITERATE", "FAIL", "BLOCK",
                "NEEDS_HUMAN", "UNKNOWN" }

----------------------------------------------------------------------------
\* Properties: errors inside and outside the implementation loop

\* the names of the phases of the attempt loop
LoopNames == UNION {ImplementNames(s) \cup VerifyNames(s) : s \in StepRange}

\* C35 as stated: a phase of the attempt loop that ended with a timeout or an
\* agent error does not end the run with exit code 1, and a phase outside
\* the loop that ended with one ends the run with status failed and exit
\* code 1
C35_LoopErrorsAreFailedVerifies ==
    (state.phases # <<>> /\ Last(state.phases).error # "")
       => IF Last(state.phases).name \in LoopNames
          THEN ~ (pc = "exited" /\ exit_code = 1)
          ELSE pc = "exited" /\ exit_code = 1 /\ state.status = "failed"

----------------------------------------------------------------------------
\* Properties: the progress tracker

\* C36 as stated: no_progress_count is the number of the most recent
\* consecutive implement phases that made no commit, and the stall is raised
\* exactly when that number reaches MAX_NO_PROGRESS
C36_CountIsIdlePhases ==
    /\ progress.no_progress_count = progress.idle
    /\ (raised = "stall") <=> (progress.idle >= progress.max_no_progress)

----------------------------------------------------------------------------
\* Properties: stagnation

\* C37 as stated: on a fresh log directory the prompt of an implement attempt
\* holds the stagnation clause exactly when the saved outputs of the two
\* verify attempts before it are similar; read in the state an implement
\* phase that returned leaves
C37_ClauseIffLastTwoVerifiesSimilar ==
    ( /\ resumes = 0
      /\ pc = "verify-attempt"
      /\ state.phases # <<>>
      /\ Last(state.phases).name = ImplementName(step, attempt) )
       => (log_dir.instructed = "different-approach"
              <=> /\ attempt >= 3
                  /\ {VerifyName(step, attempt - 2), VerifyName(step, attempt - 1)}
                        \subseteq DOMAIN log_dir.outputs
                  /\ Similar(log_dir.outputs[VerifyName(step, attempt - 2)],
                             log_dir.outputs[VerifyName(step, attempt - 1)]))

----------------------------------------------------------------------------
\* Properties: the interrogation iterate loop

\* C38 as stated: the interrogation re-generation phases of a run are at most
\* MAX_INTERROGATION_ITERATIONS, for every configured value
C38_RegenerationsCapped ==
    Cardinality(Runs("interrogate-v2")) <= cfg.MAX_INTERROGATION_ITERATIONS

----------------------------------------------------------------------------
\* Properties: the cost accumulator

----------------------------------------------------------------------------
\* Properties: termination

\* the phases one process can run: the stages of main but implement once
\* each, a second pass and one re-generation for each of the two reviews,
\* extract-steps, security-fix, and an implement and a verify phase for each
\* attempt of each step
MostPhases == (Len(Stages) - 1) + 4 + 2 + 2 * steps * cfg.MAX_VERIFY_RETRIES

\* no phase name is run twice by a process, the attempts of a step are at
\* most MAX_VERIFY_RETRIES, and the phase list is no longer than MostPhases
PhasesBounded ==
    /\ \A i, j \in 1..Len(state.phases) :
          i # j => state.phases[i].name # state.phases[j].name
    /\ \A s \in StepRange :
          /\ ImplementAttempts(state, s) \subseteq 1..cfg.MAX_VERIFY_RETRIES
          /\ VerifyAttempts(state, s) \subseteq 1..cfg.MAX_VERIFY_RETRIES
          /\ ImplementAttempts(state, s) # {} => s <= steps
    /\ Len(state.phases) <= MostPhases

\* C40: under fair scheduling every started process reaches its exit, after
\* a bounded number of phases: every phase name at most once (so each stage
\* and each re-generation at most once) and at most MAX_VERIFY_RETRIES
\* implement/verify pairs per step
C40_RunsTerminate ==
    /\ [] PhasesBounded
    /\ (pc # "exited") ~> (pc = "exited")

\* a process has exited after using every attempt of a step
C40_Witness ==
    /\ pc = "exited"
    /\ exit_code = 3
    /\ cfg.MAX_VERIFY_RETRIES = MaxRetries
    /\ ImplementAttempts(state, 1) = 1..MaxRetries
    /\ VerifyAttempts(state, 1) = 1..MaxRetries

====
